---- MODULE Spec2Model ----
(***************************************************************************)
(* The data-cleaning pipeline of src/Automation/automation_app.py:         *)
(* clean_data (header, dedup, amount, status, date) and the button handler *)
(* that calls it on a copy of the raw table.                               *)
(*                                                                         *)
(* A table is [columns, rows]; a row is [idx, cells] where idx is the      *)
(* pandas index label and cells is aligned with columns.  A cell is        *)
(* [tag, s, n]: Text carries its characters in s, Number its value in n,   *)
(* Date its calendar date as the number yyyymmdd in n, Missing (None, NaN, *)
(* NaT) carries nothing.  Text and column names are sequences of           *)
(* one-character strings so that the string operations of the code act on  *)
(* characters.  Numbers are naturals.                                      *)
(*                                                                         *)
(* The repository pins no pandas version, and two lines of clean_data      *)
(* behave differently across the major versions: the chained in-place      *)
(* fill of line 53 (it reaches df only without copy-on-write, that is      *)
(* before 3.0) and the parsing of a column of mixed date formats at line   *)
(* 63 (element by element before 2.0, with the format of the first         *)
(* non-null element from 2.0 on).  The version is a variable chosen in     *)
(* Init.                                                                   *)
(*                                                                         *)
(* The log lines are the code's without their leading check-mark           *)
(* character, which a TLA+ string cannot hold.                             *)
(***************************************************************************)
EXTENDS Naturals, Sequences, FiniteSets, TLC

VARIABLES
    pandas,      \* major version of the installed pandas (nothing pins it)
    df_raw,      \* the handler's raw table (line 76/81)
    passed,      \* the table object handed to clean_data (df_raw.copy(), line 98)
    called_with, \* history: the contents of passed when clean_data was entered
    df,          \* clean_data's local name df
    report_log,  \* clean_data's report_log
    pc,          \* position in the handler / in clean_data
    df_clean,    \* the handler's df_clean (line 98)
    logs,        \* the handler's logs (line 98)
    first        \* history: the result of the first call once a second call is made

vars == <<pandas, df_raw, passed, called_with, df, report_log, pc, df_clean, logs, first>>

\* Largest number of rows of a raw table.
MaxRows == 2

-----------------------------------------------------------------------------
(* Cells *)

Text(s) == [tag |-> "Text", s |-> s, n |-> 0]
Number(n) == [tag |-> "Number", s |-> <<>>, n |-> n]
Date(n) == [tag |-> "Date", s |-> <<>>, n |-> n]
Missing == [tag |-> "Missing", s |-> <<>>, n |-> 0]

-----------------------------------------------------------------------------
(* Characters and the string methods the code uses *)

LowerLetters == <<"a","b","c","d","e","f","g","h","i","j","k","l","m",
                  "n","o","p","q","r","s","t","u","v","w","x","y","z">>
UpperLetters == <<"A","B","C","D","E","F","G","H","I","J","K","L","M",
                  "N","O","P","Q","R","S","T","U","V","W","X","Y","Z">>
Digits == <<"0","1","2","3","4","5","6","7","8","9">>

Range(f) == {f[i] : i \in DOMAIN f}
IndexOf(c, seq) == CHOOSE i \in DOMAIN seq : seq[i] = c

IsLower(c) == c \in Range(LowerLetters)
IsUpper(c) == c \in Range(UpperLetters)
IsCased(c) == IsLower(c) \/ IsUpper(c)
IsDigit(c) == c \in Range(Digits)
IsSpace(c) == c = " "

ToLower(c) == IF IsUpper(c) THEN LowerLetters[IndexOf(c, UpperLetters)] ELSE c
ToUpper(c) == IF IsLower(c) THEN UpperLetters[IndexOf(c, LowerLetters)] ELSE c

\* str.strip(): leading and trailing whitespace removed.
Strip(s) ==
    LET keep == {i \in DOMAIN s : ~IsSpace(s[i])}
    IN  IF keep = {} THEN <<>>
        ELSE LET lo == CHOOSE i \in keep : \A j \in keep : i <= j
                 hi == CHOOSE i \in keep : \A j \in keep : j <= i
             IN  SubSeq(s, lo, hi)

\* str.lower()
Lower(s) == [i \in DOMAIN s |-> ToLower(s[i])]

\* str.replace(old, new) for a one-character old and any new.
RECURSIVE Replace(_, _, _)
Replace(s, old, new) ==
    IF s = <<>> THEN <<>>
    ELSE (IF Head(s) = old THEN new ELSE <<Head(s)>>) \o Replace(Tail(s), old, new)

\* str.title(): the characters are scanned left to right; a cased character
\* becomes upper case when the previous character was not cased and lower case
\* when it was.
RECURSIVE TitleFrom(_, _)
TitleFrom(s, previous_is_cased) ==
    IF s = <<>> THEN <<>>
    ELSE IF IsCased(Head(s))
         THEN <<IF previous_is_cased THEN ToLower(Head(s)) ELSE ToUpper(Head(s))>>
              \o TitleFrom(Tail(s), TRUE)
         ELSE <<Head(s)>> \o TitleFrom(Tail(s), FALSE)

\* Title-casing by whitespace-separated words: only a letter that starts the
\* text or follows whitespace is capitalized.
TitleByWhitespace(s) ==
    [i \in DOMAIN s |->
        IF ~IsCased(s[i]) THEN s[i]
        ELSE IF i = 1 \/ IsSpace(s[i - 1]) THEN ToUpper(s[i]) ELSE ToLower(s[i])]

Title(s) == TitleFrom(s, FALSE)

\* The normalization without its strip().
NormalizeNameNoStrip(name) == Replace(Lower(name), " ", <<"_">>)

\* df.columns.str.strip().str.lower().str.replace(' ', '_') on one name
NormalizeName(name) == Replace(Lower(Strip(name)), " ", <<"_">>)

-----------------------------------------------------------------------------
(* Numbers and text *)

DigitVal(c) == IndexOf(c, Digits) - 1
AllDigits(s) == \A i \in DOMAIN s : IsDigit(s[i])

\* The value of a sequence of digits.
RECURSIVE NumVal(_)
NumVal(s) ==
    IF s = <<>> THEN 0
    ELSE NumVal(SubSeq(s, 1, Len(s) - 1)) * 10 + DigitVal(s[Len(s)])

\* str(n) of a natural number.
RECURSIVE NumStr(_)
NumStr(n) ==
    IF n < 10 THEN <<Digits[n + 1]>>
    ELSE NumStr(n \div 10) \o <<Digits[(n % 10) + 1]>>

\* Series.astype(str) on one cell of an amount column (text, number or
\* missing): text stays, a number is printed, a missing value is printed as
\* the text nan.
AsTypeStr(c) ==
    CASE c.tag = "Text" -> c.s
      [] c.tag = "Number" -> NumStr(c.n)
      [] OTHER -> <<"n","a","n">>

\* pd.to_numeric(errors='coerce') on one text: digits give their value, anything
\* else (the empty text and the text nan included) gives NaN.
ToNumeric(s) == IF s # <<>> /\ AllDigits(s) THEN Number(NumVal(s)) ELSE Missing

-----------------------------------------------------------------------------
(* Dates *)

MonthAbbr == << <<"J","a","n">>, <<"F","e","b">>, <<"M","a","r">>, <<"A","p","r">>,
                <<"M","a","y">>, <<"J","u","n">>, <<"J","u","l">>, <<"A","u","g">>,
                <<"S","e","p">>, <<"O","c","t">>, <<"N","o","v">>, <<"D","e","c">> >>

IsLeap(y) == (y % 4 = 0 /\ y % 100 # 0) \/ y % 400 = 0
DaysIn(y, m) ==
    IF m = 2 THEN (IF IsLeap(y) THEN 29 ELSE 28)
    ELSE IF m \in {4, 6, 9, 11} THEN 30 ELSE 31
ValidYMD(y, m, d) == y >= 1 /\ m \in 1..12 /\ d >= 1 /\ d <= DaysIn(y, m)
\* A calendar date as the number yyyymmdd; 0 stands for no date.
Encode(y, m, d) == IF ValidYMD(y, m, d) THEN y * 10000 + m * 100 + d ELSE 0
ValidDate(n) == ValidYMD(n \div 10000, (n \div 100) % 100, n % 100)

DateFormats == {"%Y-%m-%d", "%Y/%m/%d", "%m/%d/%Y", "%b %d, %Y"}

Field(s, lo, hi) == SubSeq(s, lo, hi)
NumField(s, lo, hi) == NumVal(Field(s, lo, hi))

\* Parsing text s with one format: the date as yyyymmdd, or 0 when s does not
\* match the format or names no calendar date.
ParseWith(fmt, s) ==
    CASE fmt = "%Y-%m-%d" ->
            IF Len(s) = 10 /\ s[5] = "-" /\ s[8] = "-" /\ AllDigits(Field(s, 1, 4))
               /\ AllDigits(Field(s, 6, 7)) /\ AllDigits(Field(s, 9, 10))
            THEN Encode(NumField(s, 1, 4), NumField(s, 6, 7), NumField(s, 9, 10))
            ELSE 0
      [] fmt = "%Y/%m/%d" ->
            IF Len(s) = 10 /\ s[5] = "/" /\ s[8] = "/" /\ AllDigits(Field(s, 1, 4))
               /\ AllDigits(Field(s, 6, 7)) /\ AllDigits(Field(s, 9, 10))
            THEN Encode(NumField(s, 1, 4), NumField(s, 6, 7), NumField(s, 9, 10))
            ELSE 0
      [] fmt = "%m/%d/%Y" ->
            IF Len(s) = 10 /\ s[3] = "/" /\ s[6] = "/" /\ AllDigits(Field(s, 1, 2))
               /\ AllDigits(Field(s, 4, 5)) /\ AllDigits(Field(s, 7, 10))
            THEN Encode(NumField(s, 7, 10), NumField(s, 1, 2), NumField(s, 4, 5))
            ELSE 0
      [] fmt = "%b %d, %Y" ->
            IF Len(s) \in {11, 12} /\ Field(s, 1, 3) \in Range(MonthAbbr) /\ s[4] = " "
               /\ s[Len(s) - 5] = "," /\ s[Len(s) - 4] = " "
               /\ AllDigits(Field(s, 5, Len(s) - 6))
               /\ AllDigits(Field(s, Len(s) - 3, Len(s)))
            THEN Encode(NumField(s, Len(s) - 3, Len(s)),
                        IndexOf(Field(s, 1, 3), MonthAbbr),
                        NumField(s, 5, Len(s) - 6))
            ELSE 0
      [] OTHER -> 0

\* The format a text is written in, "none" when it is no date in any of them.
GuessFormat(s) ==
    IF \E f \in DateFormats : ParseWith(f, s) # 0
    THEN CHOOSE f \in DateFormats : ParseWith(f, s) # 0
    ELSE "none"

\* pandas from 2.0 on parses a whole column with the format inferred from its
\* first non-null element; before, every element was parsed on its own.
InfersDateFormat(p) == p >= 2

\* pd.to_datetime(col, errors='coerce') on a column of cells.
ToDatetime(col, p) ==
    LET nonnull == {i \in DOMAIN col : col[i].tag # "Missing"}
        head == IF nonnull = {} THEN Missing
                ELSE col[CHOOSE i \in nonnull : \A j \in nonnull : i <= j]
        fmt == IF InfersDateFormat(p) /\ head.tag = "Text" THEN GuessFormat(head.s)
               ELSE "none"
        parse(s) == IF fmt # "none" THEN ParseWith(fmt, s)
                    ELSE ParseWith(GuessFormat(s), s)
        conv(c) == CASE c.tag = "Date" -> c
                     [] c.tag = "Text" -> (IF parse(c.s) = 0 THEN Missing
                                           ELSE Date(parse(c.s)))
                     [] OTHER -> Missing
    IN  [i \in DOMAIN col |-> conv(col[i])]

-----------------------------------------------------------------------------
(* Tables *)

EmptyTable == [columns |-> <<>>, rows |-> <<>>]

HasColumn(t, name) == \E k \in DOMAIN t.columns : t.columns[k] = name
ColIndex(t, name) == CHOOSE k \in DOMAIN t.columns : t.columns[k] = name
Column(t, name) == [i \in DOMAIN t.rows |-> t.rows[i].cells[ColIndex(t, name)]]
\* df[name] = col
SetColumn(t, name, col) ==
    [t EXCEPT !.rows = [i \in DOMAIN t.rows |->
                           [t.rows[i] EXCEPT !.cells[ColIndex(t, name)] = col[i]]]]

\* The rows at the positions in K, in their order.
RECURSIVE KeepRows(_, _)
KeepRows(rows, K) ==
    IF rows = <<>> THEN <<>>
    ELSE LET n == Len(rows)
             front == KeepRows(SubSeq(rows, 1, n - 1), K)
         IN  IF n \in K THEN Append(front, rows[n]) ELSE front

\* drop_duplicates(keep='last'): a row goes when a later row has the same cells.
DropDuplicatesKeepLast(t) ==
    [t EXCEPT !.rows =
        KeepRows(t.rows, {i \in DOMAIN t.rows :
                            ~\E j \in (i + 1)..Len(t.rows) : t.rows[j].cells = t.rows[i].cells})]

\* DataFrame.drop_duplicates(): a row goes when an earlier row has the same cells
\* (the index label is not compared; missing values compare equal).
DropDuplicates(t) ==
    [t EXCEPT !.rows =
        KeepRows(t.rows, {i \in DOMAIN t.rows :
                            ~\E j \in 1..(i - 1) : t.rows[j].cells = t.rows[i].cells})]

\* The rows with a missing value are kept.
DropNaKeepsRows(t, name) == t

\* DataFrame.dropna(subset=[name])
DropNa(t, name) ==
    [t EXCEPT !.rows =
        KeepRows(t.rows, {i \in DOMAIN t.rows :
                            t.rows[i].cells[ColIndex(t, name)].tag # "Missing"})]

AMOUNT == <<"a","m","o","u","n","t">>
STATUS == <<"s","t","a","t","u","s">>
DATE == <<"d","a","t","e">>

-----------------------------------------------------------------------------
(* Raw tables: what an upload or the generator can hand to the handler *)

\* Cells of the kinds of data a column can hold.
Thousand == Number(1000)
ThousandText == Text(<<"1",",","0","0","0">>)
Junk == Text(<<"x">>)
PAID == Text(<<"P","A","I","D">>)
Paid == Text(<<"P","a","i","d">>)
UnPaid == Text(<<"u","n","-","p","a","i","d">>)
IsoDate == Text(<<"2","0","2","4","-","0","1","-","0","3">>)
UsDate == Text(<<"0","1","/","0","3","/","2","0","2","4">>)
Jane == Text(<<" ","J","a","n","e"," ">>)
Ali == Text(<<"A","l","i">>)

\* Headers as typed by a user, each column with the cells it can hold.  No two
\* names of a header normalize to the same name.
Col(name, cells) == [name |-> name, cells |-> cells]
Headers ==
    { << Col(<<"T","x","n","_","I","D">>, {Jane, Ali}),
         Col(<<"A","m","o","u","n","t">>, {Thousand, ThousandText, Junk, Missing}) >>,
      << Col(<<" ","S","t","a","t","u","s"," ">>, {PAID, UnPaid, Missing}),
         Col(<<"D","a","t","e">>, {IsoDate, UsDate, Junk, Missing}) >>,
      << Col(<<"a","m","o","u","n","t">>, {Thousand, ThousandText, Missing}),
         Col(<<"s","t","a","t","u","s">>, {PAID, Paid, UnPaid}) >>,
      << Col(<<" ","C","u","s","t","o","m","e","r"," ","N","a","m","e"," ">>, {Jane, Ali}),
         Col(<<"D","A","T","E">>, {IsoDate, UsDate, Missing}) >>,
      << Col(<<"A","m","o","u","n","t","s">>, {ThousandText, Missing}),
         Col(<<"O","r","d","e","r"," ","D","a","t","e">>, {UsDate, Junk}) >>,
      << Col(<<"A","M","O","U","N","T">>, {Thousand, Junk}),
         Col(<<"S","t","a","t","u","s">>, {PAID, Paid}),
         Col(<<" ","d","a","t","e">>, {IsoDate, Missing}) >> }

\* All sequences of n cells, the k-th from the k-th column's cells.
CellRows(h) == {c \in [DOMAIN h -> UNION {h[k].cells : k \in DOMAIN h}] :
                    \A k \in DOMAIN h : c[k] \in h[k].cells}

\* pd.read_csv / pd.DataFrame: rows labelled 0, 1, ... in order.
Frame(names, cellrows) ==
    [columns |-> names,
     rows |-> [i \in DOMAIN cellrows |-> [idx |-> i - 1, cells |-> cellrows[i]]]]

\* generate_messy_data (lines 17-33).  np.random.seed(42) fixes the draws of the
\* four np.random.choice calls; each tuple below holds, for the 50 rows in
\* order, the position (from 1) in the choice list that the seeded generator
\* draws (the legacy MT19937 stream, masked rejection sampling).
rows == 50
CustomerDraws ==
    << 4, 5, 3, 5, 5, 2, 3, 3, 3, 5, 4, 3, 5, 2, 4, 2, 4, 5, 1, 4, 2, 5, 4, 1, 1,
       3, 3, 2, 4, 4, 3, 4, 4, 1, 3, 5, 3, 5, 1, 2, 4, 1, 4, 2, 2, 1, 2, 5, 2, 4 >>
DateDraws ==
    << 4, 4, 4, 5, 3, 1, 4, 2, 4, 2, 2, 4, 5, 2, 2, 4, 2, 2, 4, 4, 1, 5, 5, 2, 5,
       2, 1, 4, 4, 4, 5, 1, 5, 5, 1, 1, 1, 1, 4, 3, 3, 1, 3, 3, 1, 3, 5, 2, 2, 1 >>
AmountDraws ==
    << 4, 1, 4, 2, 1, 6, 5, 3, 4, 6, 3, 3, 1, 3, 5, 6, 3, 1, 5, 2, 6, 3, 1, 2, 2,
       4, 5, 3, 1, 4, 5, 4, 6, 5, 5, 3, 5, 4, 5, 3, 3, 6, 4, 2, 2, 5, 6, 1, 5, 6 >>
StatusDraws ==
    << 4, 4, 4, 4, 4, 3, 2, 4, 1, 1, 1, 1, 3, 1, 4, 5, 1, 3, 3, 1, 5, 1, 3, 2, 4,
       3, 1, 4, 1, 1, 2, 4, 4, 2, 3, 1, 5, 1, 1, 3, 1, 2, 2, 4, 5, 1, 1, 3, 2, 5 >>

CustomerChoices == << Text(<<"J","o","h","n"," ","D","o","e">>), Text(<<" ","J","a","n","e"," ","S","m","i","t","h"," ">>), Text(<<"A","l","i"," "," ","K","h","a","n">>),
                      Text(<<"S","a","r","a","h"," ","C","o","n","n","o","r">>), Text(<<"J","o","h","n"," ","D","o","e">>) >>
DateChoices == << Text(<<"2","0","2","4","-","0","1","-","0","1">>), Text(<<"0","1","/","0","2","/","2","0","2","4">>),
                  Text(<<"J","a","n"," ","3",","," ","2","0","2","4">>),
                  Text(<<"2","0","2","4","/","0","1","/","0","4">>), Missing >>
AmountChoices == << Number(100), Number(250), Number(500), ThousandText, Missing, Number(50) >>
StatusChoices == << Paid, Text(<<"p","e","n","d","i","n","g">>), PAID,
                    Text(<<"U","n","p","a","i","d">>), Text(<<"E","r","r","o","r">>) >>

generate_messy_data ==
    LET data == [x \in 1..rows |->
                    << Text(<<"T","X","N","-">> \o NumStr(1000 + x - 1)),
                       CustomerChoices[CustomerDraws[x]],
                       DateChoices[DateDraws[x]],
                       AmountChoices[AmountDraws[x]],
                       StatusChoices[StatusDraws[x]] >>]
    IN  Frame(<< <<"T","r","a","n","s","a","c","t","i","o","n","_","I","D">>,
                 <<"C","u","s","t","o","m","e","r"," ","N","a","m","e">>,
                 <<"D","a","t","e">>, <<"A","m","o","u","n","t">>,
                 <<"S","t","a","t","u","s">> >>,
              data \o SubSeq(data, 1, 5))

RawTables ==
    UNION { { Frame([k \in DOMAIN h |-> h[k].name], rs) :
                rs \in UNION {[1..n -> CellRows(h)] : n \in 0..MaxRows} } : h \in Headers }

\* The handler's df_raw: the demo data (line 76) or an uploaded file (line 81).
Sources == RawTables \cup {generate_messy_data}

PandasVersions == {1, 2, 3}

-----------------------------------------------------------------------------
(* The handler and clean_data *)

Init ==
    /\ pandas \in PandasVersions
    /\ df_raw \in Sources
    /\ passed = EmptyTable
    /\ called_with = EmptyTable
    /\ df = EmptyTable
    /\ report_log = <<>>
    /\ pc = "idle"
    /\ df_clean = EmptyTable
    /\ logs = <<>>
    /\ first = [called |-> FALSE, table |-> EmptyTable, log |-> <<>>]

\* Button pressed: clean_data(df_raw.copy()) is entered, df names the copy.
Click ==
    /\ pc = "idle"
    /\ passed' = df_raw
    /\ called_with' = df_raw
    /\ df' = df_raw
    /\ report_log' = <<>>
    /\ pc' = "header"
    /\ UNCHANGED <<pandas, df_raw, df_clean, logs, first>>

\* A. df.columns = ... assigns the labels of the object df names, which is
\* still the object the caller passed.
NormalizeHeader(t) == [t EXCEPT !.columns = [k \in DOMAIN t.columns |-> NormalizeName(t.columns[k])]]

HeaderStage ==
    /\ pc = "header"
    /\ passed' = NormalizeHeader(passed)
    /\ df' = NormalizeHeader(passed)
    /\ report_log' = Append(report_log, "Standardized column headers (lowercase, no spaces).")
    /\ pc' = "dedup"
    /\ UNCHANGED <<pandas, df_raw, called_with, df_clean, logs, first>>

\* B. df = df.drop_duplicates() binds df to a new table.
RemovedMessage(n) == "Removed " \o ToString(n) \o " duplicate rows."

DedupStage ==
    /\ pc = "dedup"
    /\ LET initial_count == Len(df.rows)
           out == DropDuplicates(df)
           removed_count == initial_count - Len(out.rows)
       IN  /\ df' = out
           /\ report_log' = Append(report_log, RemovedMessage(removed_count))
    /\ pc' = "amount"
    /\ UNCHANGED <<pandas, df_raw, passed, called_with, df_clean, logs, first>>

\* With copy-on-write (the only mode from pandas 3.0 on) df['amount'] is a new
\* Series, and filling it in place leaves df as it was.
CopyOnWrite(p) == p >= 3

\* Lines 51-53 applied to every column instead of the amount column alone.
CleanAmountEveryColumn(t, p) ==
    [t EXCEPT !.rows = [i \in DOMAIN t.rows |->
        [t.rows[i] EXCEPT !.cells = [k \in DOMAIN t.columns |->
            LET numeric == ToNumeric(Replace(AsTypeStr(t.rows[i].cells[k]), ",", <<>>))
            IN  IF numeric.tag = "Missing" /\ ~CopyOnWrite(p) THEN Number(0) ELSE numeric]]]]

\* C. lines 51-53 on the amount column
CleanAmount(t, p) ==
    LET stripped == [i \in DOMAIN t.rows |->
                        Replace(AsTypeStr(Column(t, AMOUNT)[i]), ",", <<>>)]
        numeric == [i \in DOMAIN t.rows |-> ToNumeric(stripped[i])]
        filled == [i \in DOMAIN t.rows |->
                      IF numeric[i].tag = "Missing" /\ ~CopyOnWrite(p)
                      THEN Number(0) ELSE numeric[i]]
    IN  SetColumn(t, AMOUNT, filled)

AmountStage ==
    /\ pc = "amount"
    /\ IF HasColumn(df, AMOUNT)
       THEN /\ df' = CleanAmount(df, pandas)
            /\ report_log' = Append(report_log,
                   "Cleaned 'Amount' column (removed commas, converted text to numbers).")
       ELSE UNCHANGED <<df, report_log>>
    /\ pc' = "status"
    /\ UNCHANGED <<pandas, df_raw, passed, called_with, df_clean, logs, first>>

\* D. Series.str.title(): text is title-cased, anything else becomes NaN.
CleanStatus(t) ==
    SetColumn(t, STATUS,
        [i \in DOMAIN t.rows |->
            LET c == Column(t, STATUS)[i]
            IN  IF c.tag = "Text" THEN Text(Title(c.s)) ELSE Missing])

\* The status stage with its log line outside the if.
StatusStageAlwaysLogs ==
    /\ pc = "status"
    /\ IF HasColumn(df, STATUS) THEN df' = CleanStatus(df) ELSE UNCHANGED df
    /\ report_log' = Append(report_log, "Standardized 'Status' column casing.")
    /\ pc' = "date"
    /\ UNCHANGED <<pandas, df_raw, passed, called_with, df_clean, logs, first>>

StatusStage ==
    /\ pc = "status"
    /\ IF HasColumn(df, STATUS)
       THEN /\ df' = CleanStatus(df)
            /\ report_log' = Append(report_log, "Standardized 'Status' column casing.")
       ELSE UNCHANGED <<df, report_log>>
    /\ pc' = "date"
    /\ UNCHANGED <<pandas, df_raw, passed, called_with, df_clean, logs, first>>

\* E. lines 63-64 on the date column
CleanDate(t, p) == DropNa(SetColumn(t, DATE, ToDatetime(Column(t, DATE), p)), DATE)

DateStage ==
    /\ pc = "date"
    /\ IF HasColumn(df, DATE)
       THEN /\ df' = CleanDate(df, pandas)
            /\ report_log' = Append(report_log,
                   "Parsed mixed Date formats into ISO standard (YYYY-MM-DD).")
       ELSE UNCHANGED <<df, report_log>>
    /\ pc' = "return"
    /\ UNCHANGED <<pandas, df_raw, passed, called_with, df_clean, logs, first>>

\* return df, report_log; the handler binds df_clean, logs.
Return ==
    /\ pc = "return"
    /\ df_clean' = df
    /\ logs' = report_log
    /\ pc' = "done"
    /\ UNCHANGED <<pandas, df_raw, passed, called_with, df, report_log, first>>

\* clean_data is called once more, on the table it returned.
CallAgain ==
    /\ pc = "done"
    /\ ~first.called
    /\ first' = [called |-> TRUE, table |-> df_clean, log |-> logs]
    /\ passed' = df_clean
    /\ called_with' = df_clean
    /\ df' = df_clean
    /\ report_log' = <<>>
    /\ pc' = "header"
    /\ UNCHANGED <<pandas, df_raw, df_clean, logs>>

Next ==
    \/ Click
    \/ HeaderStage
    \/ DedupStage
    \/ AmountStage
    \/ StatusStage
    \/ DateStage
    \/ Return
    \/ CallAgain

Spec == Init /\ [][Next]_vars

-----------------------------------------------------------------------------
(* Vocabulary of the properties: a call's input is called_with, its output  *)
(* is df_clean and logs once pc = "done".                                   *)

In == called_with.rows
Out == df_clean.rows

\* Output row i carries the index label of exactly one input row.
HasSource(i) == \E j \in DOMAIN In : In[j].idx = Out[i].idx
Source(i) == CHOOSE j \in DOMAIN In : In[j].idx = Out[i].idx

\* The normal form of a column name, stated directly: the part between the
\* first and the last non-space character, lower-cased, spaces as underscores.
Canon(name) ==
    LET solid == {i \in DOMAIN name : name[i] # " "}
    IN  IF solid = {} THEN <<>>
        ELSE LET lo == CHOOSE i \in solid : \A j \in solid : i <= j
                 hi == CHOOSE i \in solid : \A j \in solid : j <= i
             IN  [i \in 1..(hi - lo + 1) |->
                    IF name[lo + i - 1] = " " THEN "_" ELSE ToLower(name[lo + i - 1])]

Roles == {AMOUNT, STATUS, DATE}
InputHas(role) == \E k \in DOMAIN called_with.columns : Canon(called_with.columns[k]) = role
RoleColumn(role) == CHOOSE k \in DOMAIN called_with.columns : Canon(called_with.columns[k]) = role

\* Positions of the rows that equal no earlier row in every cell.
FirstOccurrences(rs) ==
    {i \in DOMAIN rs : \A j \in DOMAIN rs : j < i => rs[j].cells # rs[i].cells}
\* The k-th smallest member of a set of positions.
Nth(K, k) == CHOOSE i \in K : Cardinality({j \in K : j < i}) = k - 1

Labels(rs) == [i \in DOMAIN rs |-> rs[i].idx]
CellsOf(t) == [i \in DOMAIN t.rows |-> t.rows[i].cells]

-----------------------------------------------------------------------------
(* C1 - C3 *)

\* C1: clean_data is idempotent: calling it on the table it returned gives a
\* table with the same column names, the same rows in the same order and the
\* same cell values, the second dedup log entry reports 0 removed rows and the
\* second run drops no row.
C1_Idempotent ==
    (pc = "done" /\ first.called) =>
        /\ df_clean.columns = first.table.columns
        /\ CellsOf(df_clean) = CellsOf(first.table)
        /\ Len(df_clean.rows) = Len(first.table.rows)
        /\ logs[2] = "Removed 0 duplicate rows."

\* C2: no two rows of the table clean_data returns are equal in every cell,
\* rows that became equal through the amount, status and date stages included.
C2_NoEqualRows ==
    pc = "done" =>
        \A i, j \in DOMAIN Out : i < j => Out[i].cells # Out[j].cells

\* C3: after clean_data(df) returns, the table object passed as df has the
\* column names, rows and cell values it had before the call.
C3_ArgumentUnaltered ==
    pc = "done" => passed = called_with

-----------------------------------------------------------------------------
(* C4 *)

NoDate(c) ==
    \/ c.tag = "Missing"
    \/ c.tag = "Text" /\ \A f \in DateFormats : ParseWith(f, c.s) = 0

\* C4: when the normalized header has a date column, every row of the output
\* holds a valid calendar date in it, and every input row whose date cell is
\* unparseable or missing is absent from the output.
C4_DateTotality ==
    (pc = "done" /\ InputHas(DATE)) =>
        LET k == RoleColumn(DATE)
        IN  /\ \A i \in DOMAIN Out :
                  Out[i].cells[k].tag = "Date" /\ ValidDate(Out[i].cells[k].n)
            /\ \A j \in DOMAIN In :
                  NoDate(In[j].cells[k]) => ~\E i \in DOMAIN Out : Out[i].idx = In[j].idx

\* A call has returned a non-empty table from an input with an unparseable
\* date text in its date column.
C4_Witness ==
    /\ pc = "done" /\ InputHas(DATE) /\ Out # <<>>
    /\ \E j \in DOMAIN In :
          In[j].cells[RoleColumn(DATE)].tag = "Text" /\ NoDate(In[j].cells[RoleColumn(DATE)])

-----------------------------------------------------------------------------
(* C5 *)

NotComma(c) == c # ","
\* The number the amount stage is to give for an input cell.
ExpectedAmount(c) ==
    CASE c.tag = "Number" -> c.n
      [] c.tag = "Text" ->
            LET digits == SelectSeq(c.s, NotComma)
            IN  IF digits # <<>> /\ AllDigits(digits) THEN NumVal(digits) ELSE 0
      [] OTHER -> 0

\* C5: when the normalized header has an amount column, every output row's
\* amount cell is a number: a numeric input keeps its value, text is parsed
\* with its commas removed, a missing or unparseable cell becomes 0; the
\* amount stage removes no row.
C5_AmountTotality ==
    /\ [](pc = "done" /\ InputHas(AMOUNT) =>
            \A i \in DOMAIN Out :
                /\ HasSource(i)
                /\ Out[i].cells[RoleColumn(AMOUNT)].tag = "Number"
                /\ Out[i].cells[RoleColumn(AMOUNT)].n
                      = ExpectedAmount(In[Source(i)].cells[RoleColumn(AMOUNT)]))
    /\ [][pc = "amount" => Labels(df'.rows) = Labels(df.rows)]_vars

-----------------------------------------------------------------------------
(* C6 *)

\* Title case by runs of letters: a letter is capitalized when no letter
\* precedes it directly and lower-cased when one does.
LetterRunTitle(s) ==
    [i \in DOMAIN s |->
        IF ~IsCased(s[i]) THEN s[i]
        ELSE IF i > 1 /\ IsCased(s[i - 1]) THEN ToLower(s[i]) ELSE ToUpper(s[i])]

\* C6 as stated: when the normalized header has a status column, every output
\* row's status cell is the input text with the first letter of each
\* whitespace-separated word capitalized and its other letters lower-cased;
\* the status stage removes no row.
C6_TitleByWhitespaceWords ==
    /\ [](pc = "done" /\ InputHas(STATUS) =>
            \A i \in DOMAIN Out :
                /\ HasSource(i)
                /\ In[Source(i)].cells[RoleColumn(STATUS)].tag = "Text" =>
                      Out[i].cells[RoleColumn(STATUS)]
                          = Text(TitleByWhitespace(In[Source(i)].cells[RoleColumn(STATUS)].s)))
    /\ [][pc = "status" => Labels(df'.rows) = Labels(df.rows)]_vars

\* C6 as amended: when the normalized header has a status column, every output
\* row's status cell is, for a text input cell, the text with the first letter
\* of each maximal run of letters capitalized and the other letters of the run
\* lower-cased (a hyphen or any other non-letter starts a new word, not only
\* whitespace), and is missing for a missing input cell; the status stage
\* removes no row.
C6_TitleByLetterRuns ==
    /\ [](pc = "done" /\ InputHas(STATUS) =>
            \A i \in DOMAIN Out :
                /\ HasSource(i)
                /\ In[Source(i)].cells[RoleColumn(STATUS)].tag = "Text" =>
                      Out[i].cells[RoleColumn(STATUS)]
                          = Text(LetterRunTitle(In[Source(i)].cells[RoleColumn(STATUS)].s))
                /\ In[Source(i)].cells[RoleColumn(STATUS)].tag = "Missing" =>
                      Out[i].cells[RoleColumn(STATUS)] = Missing)
    /\ [][pc = "status" => Labels(df'.rows) = Labels(df.rows)]_vars

\* A call has returned a row whose status was un-paid and is now Un-Paid.
C6_Witness ==
    /\ pc = "done" /\ InputHas(STATUS)
    /\ \E i \in DOMAIN Out :
          /\ HasSource(i)
          /\ In[Source(i)].cells[RoleColumn(STATUS)] = UnPaid
          /\ Out[i].cells[RoleColumn(STATUS)] = Text(<<"U","n","-","P","a","i","d">>)

-----------------------------------------------------------------------------
(* C7 *)

\* C7: the dedup stage removes exactly the rows equal in every cell to an
\* earlier row, keeps the first of each group and the order of the rest, and
\* its log entry carries the number of rows it removed.
C7_DedupKeepsFirst ==
    pc = "amount" =>
        /\ Len(df.rows) = Cardinality(FirstOccurrences(In))
        /\ \A k \in DOMAIN df.rows : df.rows[k] = In[Nth(FirstOccurrences(In), k)]
        /\ report_log[Len(report_log)]
              = "Removed " \o ToString(Len(In) - Len(df.rows)) \o " duplicate rows."

\* The dedup stage has run on the demo data: 50 distinct rows followed by
\* copies of the first 5, and the log entry says 5.
C7_Witness ==
    /\ pc = "amount"
    /\ called_with = generate_messy_data
    /\ Len(In) = 55 /\ Len(df.rows) = 50
    /\ report_log[2] = "Removed 5 duplicate rows."

-----------------------------------------------------------------------------
(* C8 *)

PcOrder == <<"idle", "header", "dedup", "amount", "status", "date", "return", "done">>
Past(stage) == IndexOf(pc, PcOrder) > IndexOf(stage, PcOrder)
Entry(ran, line) == IF ran THEN <<line>> ELSE <<>>

\* The log a call must hold at its current position: one line per stage it has
\* passed, in stage order, the column stages only when their column exists.
ExpectedLog ==
    Entry(Past("header"), "Standardized column headers (lowercase, no spaces).")
    \o Entry(Past("dedup"),
             "Removed " \o ToString(Len(In) - Cardinality(FirstOccurrences(In)))
                 \o " duplicate rows.")
    \o Entry(Past("amount") /\ InputHas(AMOUNT),
             "Cleaned 'Amount' column (removed commas, converted text to numbers).")
    \o Entry(Past("status") /\ InputHas(STATUS), "Standardized 'Status' column casing.")
    \o Entry(Past("date") /\ InputHas(DATE),
             "Parsed mixed Date formats into ISO standard (YYYY-MM-DD).")

\* C8: the log holds exactly one entry per stage that ran, in the order header,
\* dedup, amount, status, date; header and dedup are always the first two, the
\* others are there exactly when their column exists after normalization; at
\* every position of a call the log is the expected log up to there, so no
\* entry is removed, rewritten or reordered once appended.
C8_LogPerStage ==
    /\ report_log = ExpectedLog
    /\ pc = "done" => logs = report_log

\* A call has returned four entries from a table without an amount column.
C8_Witness ==
    pc = "done" /\ Len(logs) = 4 /\ ~InputHas(AMOUNT) /\ InputHas(STATUS) /\ InputHas(DATE)

-----------------------------------------------------------------------------
(* C9 *)

\* C9: the header stage keeps the number and order of the columns and all row
\* data and renames every column to its normal form; the amount, status and
\* date stages run (and log) exactly when a column has exactly that name.
C9_HeaderStage ==
    /\ [](pc = "dedup" =>
            /\ Len(df.columns) = Len(called_with.columns)
            /\ \A k \in DOMAIN df.columns : df.columns[k] = Canon(called_with.columns[k])
            /\ df.rows = called_with.rows)
    /\ [][/\ pc = "amount" => (report_log' # report_log <=> InputHas(AMOUNT))
          /\ pc = "status" => (report_log' # report_log <=> InputHas(STATUS))
          /\ pc = "date" => (report_log' # report_log <=> InputHas(DATE))]_vars

\* The header stage has renamed " Customer Name " to customer_name.
C9_Witness ==
    /\ pc = "dedup"
    /\ called_with.columns[1]
          = <<" ","C","u","s","t","o","m","e","r"," ","N","a","m","e"," ">>
    /\ df.columns[1] = <<"c","u","s","t","o","m","e","r","_","n","a","m","e">>
    /\ df.rows # <<>>

-----------------------------------------------------------------------------
(* C10 *)

\* C10: every output row comes from one distinct input row, in the input's
\* order (so the output is no longer than the input), with the cells of every
\* column that is not amount, status or date unchanged; a stage whose column
\* is absent changes no cell and removes no row.
C10_RowsAndOtherCells ==
    /\ [](pc = "done" =>
            /\ Len(Out) <= Len(In)
            /\ \A i \in DOMAIN Out : HasSource(i)
            /\ \A i, j \in DOMAIN Out : i < j => Source(i) < Source(j)
            /\ \A i \in DOMAIN Out : \A k \in DOMAIN called_with.columns :
                  Canon(called_with.columns[k]) \notin Roles =>
                      Out[i].cells[k] = In[Source(i)].cells[k])
    /\ [][/\ (pc = "amount" /\ ~InputHas(AMOUNT)) => df' = df
          /\ (pc = "status" /\ ~InputHas(STATUS)) => df' = df
          /\ (pc = "date" /\ ~InputHas(DATE)) => df' = df]_vars

\* A call has returned fewer rows than it was given, but not none, from a
\* table with a column that has no role and without a status column.
C10_Witness ==
    /\ pc = "done"
    /\ Len(Out) > 0 /\ Len(Out) < Len(In)
    /\ ~InputHas(STATUS)
    /\ \E k \in DOMAIN called_with.columns : Canon(called_with.columns[k]) \notin Roles

====
